---- MODULE Spec2Model ----
(***************************************************************************)
(* A model of the go-jupyter kernel: the three endpoint pollers and the    *)
(* serialized dispatch loop of RunKernel, handleShellMsg and its request   *)
(* handlers, the execute pipeline with its output forwarding goroutines,   *)
(* the special-command preprocessor, and the heartbeat responder.          *)
(***************************************************************************)
EXTENDS Integers, Sequences, FiniteSets, TLC

\* ------------------------------------------------------------------ bounds
\* messages received from the network in one run, over all four receiving
\* sockets (shell, control, stdin, heartbeat)
MaxMsgs == 2
\* chunks of output produced in one run by the interpreter and by the child
\* processes of shell commands
MaxChunks == 1

\* --------------------------------------------------------------- constants
kernelBusy == "busy"
kernelIdle == "idle"
StreamStdout == "stdout"
StreamStderr == "stderr"
MIMETypeText == "text/plain"
MIMETypePNG == "image/png"

Pollers == {"shell", "stdin", "ctl"}
Streams == {StreamStdout, StreamStderr}

VARIABLES
    proc,        \* "running", or how the process ended
    nRecv,       \* number of messages received from the network so far
    chan,        \* per poller: the msgType value it offers on its channel
    pc,          \* position of the dispatch loop / of the handler it runs
    receipt,     \* <<>> or <<msgReceipt>>: the message being handled
    ExecCounter, \* the package-level execution counter
    wire,        \* every message sent on the iopub and shell sockets, in order
    std,         \* what os.Stdout and os.Stderr currently point to
    pipe,        \* the two pipes of the execute pipeline
    fwd,         \* the two forwarding goroutines of the execute pipeline
    cmdHand,     \* chunks read by copy goroutines of shell commands, not yet written
    res,         \* <<>> or <<result of doEval>>
    nChunks,     \* number of chunks of output produced so far
    hbChan,      \* the msgType value the heartbeat reader offers on msgs
    hbHand,      \* the msgType value the heartbeat loop took and has not echoed
    hbRecv,      \* payloads successfully received on the heartbeat socket
    hbSent,      \* Send calls made on the heartbeat socket
    reqs,        \* the messages handed to handleShellMsg, in order
    outcome,     \* <<>> or <<what the interpreter, a special command or the completer did>>
    lock,        \* per guarded socket: whether its Socket.Lock is held
    at,          \* per writing task: where it is in RunWithSocket
    quit,        \* per quit channel: whether it was closed
    task         \* per goroutine of RunKernel and startHeartbeat: where it is

vars == <<proc, nRecv, chan, pc, receipt, ExecCounter, wire, std, pipe, fwd,
          cmdHand, res, nChunks, hbChan, hbHand, hbRecv, hbSent, reqs, outcome,
          lock, at, quit, task>>

netVars == <<nRecv, chan>>
execVars == <<std, pipe, fwd, res, outcome>>
dispatchVars == <<pc, receipt, ExecCounter, wire, reqs, execVars>>
cmdVars == <<cmdHand, nChunks>>
hbVars == <<hbChan, hbHand, hbRecv, hbSent>>
taskVars == <<lock, at, quit, task>>

\* ------------------------------------------------------------ input spaces
MsgTypes == {"kernel_info_request", "is_complete_request", "complete_request",
             "execute_request", "shutdown_request", "comm_info_request"}

\* The first line of the submitted code, as evalSpecialCommands classifies it:
\* an ordinary line, %help, %cd, another % command, a shell escape.
Codes == {"1+1", "%help", "%cd /x", "%bogus", "!cmd"}

\* A request's content as decoded from JSON. "bad" stands for a content that
\* is not a mapping or lacks a field the handler asserts the type of.
Contents(t) ==
    CASE t = "execute_request" ->
            {[ok |-> TRUE, code |-> c, silent |-> s] : c \in Codes, s \in BOOLEAN}
            \cup {[ok |-> FALSE]}
      [] t = "shutdown_request" ->
            {[ok |-> TRUE, restart |-> r] : r \in BOOLEAN} \cup {[ok |-> FALSE]}
      [] t \in {"is_complete_request", "complete_request"} ->
            {[ok |-> TRUE, code |-> "1+1"], [ok |-> FALSE]}
      [] OTHER -> {[ok |-> TRUE]}

\* Messages of errors and panics.
Msgs == {"boom", "bang"}

\* Values an evaluation may return.
MakeData(mimeType, data) ==
    [tag |-> "Data",
     Data |-> IF mimeType # MIMETypeText
                 THEN (mimeType :> data) @@ (MIMETypeText :> data)
                 ELSE (mimeType :> data)]
EmptyData == [tag |-> "Data", Data |-> <<>>]
Plain(v) == [tag |-> "plain", v |-> v]

ValueLists == {<<>>, <<Plain("2")>>, <<Plain("2"), MakeData(MIMETypePNG, "img")>>,
               <<EmptyData, MakeData(MIMETypeText, "hi")>>}

\* What ir.Eval(code) may do: return values, return an error, or panic with
\* an error value or with another value.
EvalOutcomes ==
    {[k |-> "vals", vals |-> vs] : vs \in ValueLists}
    \cup {[k |-> "err", msg |-> m] : m \in Msgs}
    \cup {[k |-> "panic", isError |-> b, msg |-> m] : b \in BOOLEAN, m \in Msgs}

\* panic(fmt.Errorf(...)) of a special command: the message depends on the
\* line and on the operating system's error.
Panics == {[k |-> "panic", isError |-> TRUE, msg |-> m] : m \in Msgs}

\* What ir.CompleteWords may return as its completions.
MatchLists == {<<>>, <<"foo">>}

HBPayloads == {"", "ping"}

\* ------------------------------------------------- sockets and goroutines
\* The sockets whose writes go through RunWithSocket, the tasks that write
\* (the dispatch loop with the handler it runs, the two forwarding goroutines
\* of the execute pipeline, the heartbeat loop) and the sockets each one
\* writes to.
GuardedSockets == {"iopub", "shell", "hb"}
Writers == {"loop", "fwdStdout", "fwdStderr", "heartbeat"}
WritesTo(t) ==
    CASE t = "loop" -> {"iopub", "shell"}
      [] t = "heartbeat" -> {"hb"}
      [] OTHER -> {"iopub"}

\* The quit channels: the one RunKernel makes and the one startHeartbeat makes.
QuitChans == {"RunKernel", "startHeartbeat"}

\* The goroutines RunKernel and startHeartbeat start, and the message loop.
Goroutines == Pollers \cup {"hbReader", "hbLoop", "loop"}

\* No lock is held, no quit channel is closed, the pollers and the heartbeat
\* reader are in their first Recv, the two loops are at their select.
InitTasks ==
    /\ lock = [s \in GuardedSockets |-> FALSE]
    /\ at = [t \in Writers |-> [pos |-> "out", sock |-> "none", result |-> "none"]]
    /\ quit = [q \in QuitChans |-> FALSE]
    /\ task = [g \in Goroutines |-> IF g \in {"hbLoop", "loop"} THEN "select" ELSE "recv"]

\* ------------------------------------------------------------------- Init
Init ==
    /\ proc = "running"
    /\ nRecv = 0
    /\ chan = [e \in Pollers |-> <<>>]
    /\ pc = "select"
    /\ receipt = <<>>
    /\ ExecCounter = 0
    /\ wire = <<>>
    /\ std = [s \in Streams |-> "orig"]
    /\ pipe = [s \in Streams |-> [buf |-> <<>>, wopen |-> FALSE]]
    /\ fwd = [s \in Streams |-> "none"]
    /\ cmdHand = {}
    /\ res = <<>>
    /\ nChunks = 0
    /\ hbChan = <<>>
    /\ hbHand = <<>>
    /\ hbRecv = <<>>
    /\ hbSent = <<>>
    /\ reqs = <<>>
    /\ outcome = <<>>
    /\ InitTasks


\* ------------------------------------------------------- messages sent
\* receipt.PublishKernelStatus: an iopub status event tied to request r.
StatusEvent(r, state) ==
    [sock |-> "iopub", kind |-> "status", state |-> state, req |-> r.id]

\* receipt.Reply: a reply sent on the shell socket; ok tells whether the send
\* succeeded.
ReplyMsg(r, msgType, content, ok) ==
    [sock |-> "shell", kind |-> msgType, req |-> r.id, content |-> content, ok |-> ok]

Running == proc = "running"

cur == receipt[1]

\* Variant of poll that receives again before its value was taken and
\* replaces the value it offers.
poll_Overwrite(e) ==
    /\ Running
    /\ nRecv < MaxMsgs
    /\ \E err \in BOOLEAN :
          chan' = [chan EXCEPT ![e] = <<[id |-> nRecv + 1, ep |-> e, Err |-> err]>>]
    /\ nRecv' = nRecv + 1
    /\ UNCHANGED <<proc, dispatchVars, cmdVars, hbVars>>
    /\ UNCHANGED taskVars

\* ---------------------------------------------------------------- pollers
\* poll: one Recv on the socket, then the value is offered on the channel.
poll(e) ==
    /\ Running
    /\ chan[e] = <<>>
    /\ nRecv < MaxMsgs
    /\ \E err \in BOOLEAN :
          chan' = [chan EXCEPT ![e] = <<[id |-> nRecv + 1, ep |-> e, Err |-> err]>>]
    /\ nRecv' = nRecv + 1
    /\ UNCHANGED <<proc, dispatchVars, cmdVars, hbVars>>
    /\ UNCHANGED taskVars

\* ----------------------------------------------------------- dispatch loop
\* The signing key of the connection file, as prepareSockets stores it.
Key == "secret"

\* The keys a sender may have signed a message with: the kernel's, or another.
SenderKeys == {Key, "forged"}

\* The signature of the four JSON frames under a key.
HMAC(key, body) == <<"hmac-sha256", key, body>>

\* The four JSON frames of a received message: they parse to a message of
\* some type and content, or they do not.
Bodies ==
    {[json |-> FALSE]}
    \cup UNION {{[json |-> TRUE, MsgType |-> t, Content |-> c] : c \in Contents(t)}
                : t \in MsgTypes}

\* The frames a received message may hold: a signature frame and the four
\* JSON frames it was computed from, under the sender's key.
Frames == {[sig |-> HMAC(k, b), body |-> b] : k \in SenderKeys, b \in Bodies}

\* Variant of WireMsgToComposedMsg that does not compare the signatures.
WireMsgToComposedMsg_NoVerify(v, frames, key) ==
    IF ~frames.body.json
       THEN [err |-> TRUE, kind |-> "decode"]
       ELSE [err |-> FALSE,
             msg |-> [id |-> v.id, ep |-> v.ep, MsgType |-> frames.body.MsgType,
                      Content |-> frames.body.Content]]

\* Decoding: with a key configured the signature is recomputed and compared,
\* then the JSON frames are parsed.
WireMsgToComposedMsg(v, frames, key) ==
    IF key # "" /\ frames.sig # HMAC(key, frames.body)
       THEN [err |-> TRUE, kind |-> "auth"]
       ELSE IF ~frames.body.json
               THEN [err |-> TRUE, kind |-> "decode"]
               ELSE [err |-> FALSE,
                     msg |-> [id |-> v.id, ep |-> v.ep,
                              MsgType |-> frames.body.MsgType,
                              Content |-> frames.body.Content]]

\* handleShellMsg, up to its switch: publish busy, defer idle.
handleShellMsgEnter(msg, frames) ==
    /\ wire' = Append(wire, StatusEvent(msg, kernelBusy))
    /\ receipt' = <<msg>>
    /\ reqs' = Append(reqs, [id |-> msg.id, MsgType |-> msg.MsgType,
                             silent |-> /\ msg.MsgType = "execute_request"
                                        /\ msg.Content.ok
                                        /\ msg.Content.silent,
                             authentic |-> frames.sig = HMAC(Key, frames.body)])
    /\ pc' = "handle"
    /\ UNCHANGED <<proc, ExecCounter, execVars>>

\* RunKernel logs the error and returns: the deferred close(quit) runs and
\* main ends. outcome keeps what was logged, for the endpoint it came from.
RunKernelReturn(kind, e) ==
    /\ proc' = "returned"
    /\ outcome' = <<[k |-> kind, ep |-> e]>>
    /\ UNCHANGED <<pc, receipt, ExecCounter, wire, reqs, std, pipe, fwd, res>>

\* Variant of selectReady that looks at the channels in a fixed order, stdin
\* first, and takes a later one only when the earlier ones are empty.
selectReady_FixedOrder(e) ==
    /\ chan[e] # <<>>
    /\ e # "stdin" => chan["stdin"] = <<>>
    /\ e = "shell" => chan["ctl"] = <<>>

\* The select of the message loop may take the case of channel e: a poller
\* offers a value on it. Among the ready cases any one may be taken.
selectReady(e) == chan[e] # <<>>

\* RunKernel, case v := <-shell
RecvShell ==
    /\ Running /\ pc = "select" /\ selectReady("shell")
    /\ LET v == chan["shell"][1] IN
       IF v.Err
          THEN UNCHANGED <<proc, dispatchVars>>
          ELSE \E frames \in Frames :
                  LET d == WireMsgToComposedMsg(v, frames, Key)
                  IN  IF d.err THEN RunKernelReturn(d.kind, "shell")
                               ELSE handleShellMsgEnter(d.msg, frames)
    /\ chan' = [chan EXCEPT !["shell"] = <<>>]
    /\ UNCHANGED <<nRecv, cmdVars, hbVars>>
    /\ UNCHANGED taskVars

\* RunKernel, case <-stdin
RecvStdin ==
    /\ Running /\ pc = "select" /\ selectReady("stdin")
    /\ chan' = [chan EXCEPT !["stdin"] = <<>>]
    /\ UNCHANGED <<proc, nRecv, dispatchVars, cmdVars, hbVars>>
    /\ UNCHANGED taskVars

\* RunKernel, case v := <-ctl
RecvCtl ==
    /\ Running /\ pc = "select" /\ selectReady("ctl")
    /\ LET v == chan["ctl"][1] IN
       IF v.Err
          THEN RunKernelReturn("recv", "ctl")
          ELSE \E frames \in Frames :
                  LET d == WireMsgToComposedMsg(v, frames, Key)
                  IN  IF d.err THEN RunKernelReturn(d.kind, "ctl")
                               ELSE handleShellMsgEnter(d.msg, frames)
    /\ chan' = [chan EXCEPT !["ctl"] = <<>>]
    /\ UNCHANGED <<nRecv, cmdVars, hbVars>>
    /\ UNCHANGED taskVars

\* handleShellMsg's deferred function: publish idle. When the handler
\* panicked, the panic goes on after it and ends the process.
PublishIdle ==
    /\ Running /\ pc \in {"idle", "idle_panic"}
    /\ wire' = Append(wire, StatusEvent(cur, kernelIdle))
    /\ receipt' = <<>>
    /\ res' = <<>>
    /\ outcome' = <<>>
    /\ pc' = "select"
    /\ proc' = IF pc = "idle_panic" THEN "panic" ELSE proc
    /\ UNCHANGED <<netVars, ExecCounter, reqs, std, pipe, fwd, cmdVars, hbVars>>
    /\ UNCHANGED taskVars

\* Variant of ReplyOrFatal that logs a failed send and lets the handler return.
ReplyOrFatal_LogOnly(msgType, content) ==
    \E ok \in BOOLEAN :
       /\ wire' = Append(wire, ReplyMsg(cur, msgType, content, ok))
       /\ proc' = proc
       /\ pc' = "idle"

\* Variant of ReplyOrFatal that returns without sending the reply.
ReplyOrFatal_NoSend(msgType, content) ==
    \E ok \in BOOLEAN :
       /\ wire' = wire
       /\ proc' = IF ok THEN proc ELSE "fatal"
       /\ pc' = IF ok THEN "idle" ELSE pc

\* receipt.Reply(msgType, content) followed by handleShellMsg's
\* `if err != nil { log.Fatal(err) }`: a failed send ends the process
\* without running the deferred idle.
ReplyOrFatal(msgType, content) ==
    \E ok \in BOOLEAN :
       /\ wire' = Append(wire, ReplyMsg(cur, msgType, content, ok))
       /\ proc' = IF ok THEN proc ELSE "fatal"
       /\ pc' = IF ok THEN "idle" ELSE pc

\* A type assertion on the content fails: the handler panics.
HandlerPanic ==
    /\ pc' = "idle_panic"
    /\ UNCHANGED <<proc, wire>>

\* case "kernel_info_request": sendKernelInfo
sendKernelInfo ==
    /\ Running /\ pc = "handle" /\ cur.MsgType = "kernel_info_request"
    /\ ReplyOrFatal("kernel_info_reply", [status |-> "ok"])
    /\ UNCHANGED <<netVars, receipt, ExecCounter, reqs, execVars, cmdVars, hbVars>>
    /\ UNCHANGED taskVars

checkComplete(code) == [status |-> "complete", indent |-> ""]

\* case "is_complete_request": handleIsCompleteRequest
handleIsCompleteRequest ==
    /\ Running /\ pc = "handle" /\ cur.MsgType = "is_complete_request"
    /\ IF ~cur.Content.ok
          THEN HandlerPanic
          ELSE ReplyOrFatal("is_complete_reply", checkComplete(cur.Content.code))
    /\ UNCHANGED <<netVars, receipt, ExecCounter, reqs, execVars, cmdVars, hbVars>>
    /\ UNCHANGED taskVars

\* The content handleCompleteRequest builds from the matches.
completeContent(matches) ==
    [ename |-> "ERROR", evalue |-> "no completions found", status |-> "error"]

\* case "complete_request": handleCompleteRequest
handleCompleteRequest ==
    /\ Running /\ pc = "handle" /\ cur.MsgType = "complete_request"
    /\ IF ~cur.Content.ok
          THEN HandlerPanic /\ UNCHANGED outcome
          ELSE \E matches \in MatchLists :
                  /\ outcome' = <<[k |-> "matches", matches |-> matches]>>
                  /\ ReplyOrFatal("complete_reply", completeContent(matches))
    /\ UNCHANGED <<netVars, receipt, ExecCounter, reqs, std, pipe, fwd, res, cmdVars,
                   hbVars>>
    /\ UNCHANGED taskVars

\* Variant of handleShutdownRequest that replies and returns to the loop.
handleShutdownRequest_NoExit ==
    /\ Running /\ pc = "handle" /\ cur.MsgType = "shutdown_request"
    /\ IF ~cur.Content.ok
          THEN HandlerPanic
          ELSE \E ok \in BOOLEAN :
                  /\ wire' = Append(wire, ReplyMsg(cur, "shutdown_reply",
                                           [restart |-> cur.Content.restart], ok))
                  /\ proc' = IF ok THEN proc ELSE "fatal"
                  /\ pc' = IF ok THEN "idle" ELSE pc
    /\ UNCHANGED <<netVars, receipt, ExecCounter, reqs, execVars, cmdVars, hbVars>>
    /\ UNCHANGED taskVars

\* case "shutdown_request": handleShutdownRequest
handleShutdownRequest ==
    /\ Running /\ pc = "handle" /\ cur.MsgType = "shutdown_request"
    /\ IF ~cur.Content.ok
          THEN HandlerPanic
          ELSE \E ok \in BOOLEAN :
                  /\ wire' = Append(wire, ReplyMsg(cur, "shutdown_reply",
                                           [restart |-> cur.Content.restart], ok))
                  /\ proc' = IF ok THEN "exit0" ELSE "fatal"
                  /\ pc' = pc
    /\ UNCHANGED <<netVars, receipt, ExecCounter, reqs, execVars, cmdVars, hbVars>>
    /\ UNCHANGED taskVars

\* default: log "Unhandled shell message"
handleUnknown ==
    /\ Running /\ pc = "handle"
    /\ cur.MsgType \notin {"kernel_info_request", "is_complete_request",
                           "complete_request", "execute_request", "shutdown_request"}
    /\ pc' = "idle"
    /\ UNCHANGED <<proc, netVars, receipt, ExecCounter, wire, reqs, execVars, cmdVars,
                   hbVars>>
    /\ UNCHANGED taskVars

\* ------------------------------------------------------- execute pipeline
\* receipt.PublishExecutionInput, PublishWriteStream, PublishExecutionResult,
\* PublishExecutionError: the iopub events of the execute pipeline (the code
\* echoed by execute_input is left out).
ExecuteInputEvent(r, count) ==
    [sock |-> "iopub", kind |-> "execute_input", req |-> r.id, count |-> count]
StreamEvent(id, name, text) ==
    [sock |-> "iopub", kind |-> "stream", req |-> id, name |-> name, text |-> text]
ExecuteResultEvent(r, count, data) ==
    [sock |-> "iopub", kind |-> "execute_result", req |-> r.id, count |-> count,
     data |-> data.Data]
ErrorEvent(r, msg) ==
    [sock |-> "iopub", kind |-> "error", req |-> r.id, ename |-> "ERROR",
     evalue |-> msg, traceback |-> <<msg>>]

\* Variant of countExecution that counts silent executions too.
countExecution_Always(counter, silent) == counter + 1

\* `if !silent { ExecCounter++ }`
countExecution(counter, silent) == IF ~silent THEN counter + 1 ELSE counter

\* handleExecuteRequest up to the start of the forwarding goroutines: read the
\* content, count the execution, publish execute_input, redirect the streams.
\* A pipe that cannot be created returns the error to handleShellMsg, which
\* ends the process with log.Fatal.
handleExecuteRequestStart ==
    /\ Running /\ pc = "handle" /\ cur.MsgType = "execute_request"
    /\ IF ~cur.Content.ok
          THEN /\ HandlerPanic
               /\ UNCHANGED <<ExecCounter, std, pipe, fwd>>
          ELSE /\ ExecCounter' = countExecution(ExecCounter, cur.Content.silent)
               /\ wire' = Append(wire, ExecuteInputEvent(cur, ExecCounter'))
               /\ \/ /\ std' = [s \in Streams |-> "pipe"]
                     /\ pipe' = [s \in Streams |-> [buf |-> <<>>, wopen |-> TRUE]]
                     /\ fwd' = [s \in Streams |-> "run"]
                     /\ pc' = "special"
                     /\ proc' = proc
                  \/ /\ \E failed \in Streams :
                           std' = IF failed = StreamStderr
                                     THEN [std EXCEPT ![StreamStdout] = "pipe"]
                                     ELSE std
                     /\ proc' = "fatal"
                     /\ UNCHANGED <<pc, pipe, fwd>>
    /\ UNCHANGED <<netVars, receipt, reqs, res, outcome, cmdVars, hbVars>>
    /\ UNCHANGED taskVars

\* Variant of doEval without the deferred recover.
doEval_NoRecover(o) ==
    CASE o.k = "vals"  -> [vals |-> o.vals, err |-> <<>>, panicked |-> FALSE]
      [] o.k = "err"   -> [vals |-> <<>>, err |-> <<o.msg>>, panicked |-> FALSE]
      [] o.k = "panic" -> [vals |-> <<>>, err |-> <<o.msg>>, panicked |-> TRUE]

\* doEval with its deferred recover: a panic of the special commands or of
\* the interpreter becomes the returned error, with the panic's message
\* (r.(error), or errors.New(fmt.Sprint(r)) for another value).
doEval(o) ==
    CASE o.k = "vals"  -> [vals |-> o.vals, err |-> <<>>, panicked |-> FALSE]
      [] o.k = "err"   -> [vals |-> <<>>, err |-> <<o.msg>>, panicked |-> FALSE]
      [] o.k = "panic" -> [vals |-> <<>>, err |-> <<o.msg>>, panicked |-> FALSE]

\* The return of doEval into handleExecuteRequest; a panic that doEval did not
\* recover would go up through handleShellMsg.
doEvalReturn(o) ==
    LET r == doEval(o) IN
    /\ outcome' = <<o>>
    /\ IF r.panicked
          THEN /\ res' = res
               /\ pc' = "idle_panic"
          ELSE /\ res' = <<r>>
               /\ pc' = "close"

\* The switches of evalSpecialCommands and evalSpecialCommand on the first
\* line of the code.
SpecialKind(code) ==
    CASE code = "%help" -> "help"
      [] code = "%cd /x" -> "cd"
      [] code = "%bogus" -> "unknown"
      [] code = "!cmd" -> "shell"
      [] OTHER -> "none"

\* evalSpecialCommands on the first line of the code, called by doEval.
evalSpecialCommands ==
    /\ Running /\ pc = "special"
    /\ LET kind == SpecialKind(cur.Content.code) IN
       \/ /\ kind = "none"
          /\ pc' = "eval"
          /\ UNCHANGED <<wire, res, outcome>>
       \/ /\ kind = "help"
          /\ wire' = Append(wire, StreamEvent(cur.id, StreamStdout, "help"))
          /\ pc' = "eval"
          /\ UNCHANGED <<res, outcome>>
       \/ /\ kind = "cd"
          /\ \/ /\ pc' = "eval"
                /\ UNCHANGED <<res, outcome>>
             \/ \E p \in Panics : doEvalReturn(p)
          /\ UNCHANGED wire
       \/ /\ kind = "unknown"
          /\ \E p \in Panics : doEvalReturn(p)
          /\ UNCHANGED wire
       \/ /\ kind = "shell"
          /\ \/ /\ pc' = "cmd"
                /\ UNCHANGED <<res, outcome>>
             \/ \E p \in Panics : doEvalReturn(p)
          /\ UNCHANGED wire
    /\ UNCHANGED <<proc, netVars, receipt, ExecCounter, reqs, std, pipe, fwd, cmdVars,
                   hbVars>>
    /\ UNCHANGED taskVars

\* evalShellCommand's copy goroutines, io.Copy(outerr.out, stdout) and
\* io.Copy(outerr.err, stderr): the Read of a chunk the child process wrote.
cmdCopyRead(s) ==
    /\ Running /\ pc = "cmd"
    /\ nChunks < MaxChunks
    /\ [req |-> cur.id, name |-> s] \notin cmdHand
    /\ cmdHand' = cmdHand \cup {[req |-> cur.id, name |-> s]}
    /\ nChunks' = nChunks + 1
    /\ UNCHANGED <<proc, netVars, dispatchVars, hbVars>>
    /\ UNCHANGED taskVars

\* ... and the Write of the chunk to the JupyterStreamWriter, which publishes
\* it as a stream event of the request the writer was made for.
cmdCopyWrite(h) ==
    /\ Running
    /\ h \in cmdHand
    /\ wire' = Append(wire, StreamEvent(h.req, h.name, "out"))
    /\ cmdHand' = cmdHand \ {h}
    /\ UNCHANGED <<proc, netVars, pc, receipt, ExecCounter, reqs, execVars, nChunks,
                   hbVars>>
    /\ UNCHANGED taskVars

\* evalShellCommand: cmd.Wait returns and closes the read ends of the child's
\* pipes. On an error it panics at once; otherwise it goes on to
\* writersWG.Wait().
cmdWait ==
    /\ Running /\ pc = "cmd"
    /\ \/ /\ pc' = "cmdjoin"
          /\ UNCHANGED <<res, outcome>>
       \/ \E p \in Panics : doEvalReturn(p)
    /\ UNCHANGED <<proc, netVars, receipt, ExecCounter, wire, reqs, std, pipe, fwd,
                   cmdVars, hbVars>>
    /\ UNCHANGED taskVars

\* evalShellCommand: writersWG.Wait() returns when both copy goroutines ended.
cmdJoin ==
    /\ Running /\ pc = "cmdjoin"
    /\ \A h \in cmdHand : h.req # cur.id
    /\ pc' = "eval"
    /\ UNCHANGED <<proc, netVars, receipt, ExecCounter, wire, reqs, execVars, cmdVars,
                   hbVars>>
    /\ UNCHANGED taskVars

\* The interpreter writes to os.Stdout or os.Stderr while ir.Eval runs.
evalWrite(s) ==
    /\ Running /\ pc = "eval"
    /\ nChunks < MaxChunks
    /\ std[s] = "pipe" /\ pipe[s].wopen
    /\ pipe' = [pipe EXCEPT ![s].buf = Append(@, "out")]
    /\ nChunks' = nChunks + 1
    /\ UNCHANGED <<proc, netVars, pc, receipt, ExecCounter, wire, reqs, std, fwd, res,
                   outcome, cmdHand, hbVars>>
    /\ UNCHANGED taskVars

\* ir.Eval(code) ends.
evalReturn ==
    /\ Running /\ pc = "eval"
    /\ \E o \in EvalOutcomes : doEvalReturn(o)
    /\ UNCHANGED <<proc, netVars, receipt, ExecCounter, wire, reqs, std, pipe, fwd,
                   cmdVars, hbVars>>
    /\ UNCHANGED taskVars

\* Variant of closeAndRestore that restores the streams and leaves the write
\* ends of the pipes open.
closeAndRestore_NoClose ==
    /\ Running /\ pc = "close"
    /\ pipe' = pipe
    /\ std' = [s \in Streams |-> "orig"]
    /\ pc' = "wait"
    /\ UNCHANGED <<proc, netVars, receipt, ExecCounter, wire, reqs, fwd, res, outcome,
                   cmdVars, hbVars>>
    /\ UNCHANGED taskVars

\* handleExecuteRequest: close the write ends and restore the streams.
closeAndRestore ==
    /\ Running /\ pc = "close"
    /\ pipe' = [s \in Streams |-> [pipe[s] EXCEPT !.wopen = FALSE]]
    /\ std' = [s \in Streams |-> "orig"]
    /\ pc' = "wait"
    /\ UNCHANGED <<proc, netVars, receipt, ExecCounter, wire, reqs, fwd, res, outcome,
                   cmdVars, hbVars>>
    /\ UNCHANGED taskVars

\* A forwarding goroutine, io.Copy(&jupyterStdOut, rOut): one chunk read from
\* the pipe and published as a stream event.
forward(s) ==
    /\ Running /\ fwd[s] = "run"
    /\ pipe[s].buf # <<>>
    /\ wire' = Append(wire, StreamEvent(cur.id, s, Head(pipe[s].buf)))
    /\ pipe' = [pipe EXCEPT ![s].buf = Tail(@)]
    /\ UNCHANGED <<proc, netVars, pc, receipt, ExecCounter, reqs, std, fwd, res,
                   outcome, cmdVars, hbVars>>
    /\ UNCHANGED taskVars

\* A forwarding goroutine reads EOF: io.Copy returns, writersWG.Done().
forwardDone(s) ==
    /\ Running /\ fwd[s] = "run"
    /\ pipe[s].buf = <<>> /\ ~pipe[s].wopen
    /\ fwd' = [fwd EXCEPT ![s] = "done"]
    /\ UNCHANGED <<proc, netVars, pc, receipt, ExecCounter, wire, reqs, std, pipe,
                   res, outcome, cmdVars, hbVars>>
    /\ UNCHANGED taskVars

RECURSIVE firstData(_)
firstData(vals) ==
    IF vals = <<>> THEN EmptyData
    ELSE IF Head(vals).tag = "Data" THEN Head(vals)
    ELSE firstData(Tail(vals))

\* Kernel.autoRenderResults: the first value that is a Data, else Data{}.
autoRenderResults(vals) == firstData(vals)

\* len(data.Data)
LenData(data) == Cardinality(DOMAIN data.Data)

\* Variant of publishesResult that ignores the silent flag.
publishesResult_IgnoreSilent(silent, data) == LenData(data) # 0

\* `if !silent && len(data.Data) != 0`
publishesResult(silent, data) == ~silent /\ LenData(data) # 0

\* handleExecuteRequest after writersWG.Wait(): publish the result or the error.
publishOutcome ==
    /\ Running /\ pc = "wait"
    /\ \A s \in Streams : fwd[s] = "done"
    /\ LET r == res[1]
           data == autoRenderResults(r.vals)
       IN  IF r.err = <<>>
              THEN IF publishesResult(cur.Content.silent, data)
                      THEN wire' = Append(wire, ExecuteResultEvent(cur, ExecCounter, data))
                      ELSE wire' = wire
              ELSE wire' = Append(wire, ErrorEvent(cur, r.err[1]))
    /\ fwd' = [s \in Streams |-> "none"]
    /\ pc' = "reply"
    /\ UNCHANGED <<proc, netVars, receipt, ExecCounter, reqs, std, pipe, res, outcome,
                   cmdVars, hbVars>>
    /\ UNCHANGED taskVars

\* Variant of executeContent that reports the count of the next execution.
executeContent_NextCount(r, count) ==
    IF r.err = <<>>
       THEN [status |-> "ok", execution_count |-> count + 1]
       ELSE [status |-> "error", execution_count |-> count + 1, ename |-> "ERROR",
             evalue |-> r.err[1]]

\* The reply content handleExecuteRequest builds.
executeContent(r, count) ==
    IF r.err = <<>>
       THEN [status |-> "ok", execution_count |-> count]
       ELSE [status |-> "error", execution_count |-> count, ename |-> "ERROR",
             evalue |-> r.err[1]]

\* handleExecuteRequest: return receipt.Reply("execute_reply", content)
sendExecuteReply ==
    /\ Running /\ pc = "reply"
    /\ ReplyOrFatal("execute_reply", executeContent(res[1], ExecCounter))
    /\ UNCHANGED <<netVars, receipt, ExecCounter, reqs, execVars, cmdVars, hbVars>>
    /\ UNCHANGED taskVars

\* -------------------------------------------------------------- heartbeat
\* The reader goroutine of startHeartbeat: hbSocket.Socket.Recv(), then the
\* value is offered on msgs.
hbPoll ==
    /\ Running
    /\ hbChan = <<>>
    /\ nRecv < MaxMsgs
    /\ nRecv' = nRecv + 1
    /\ \/ \E p \in HBPayloads :
             /\ hbChan' = <<[Msg |-> p, Err |-> FALSE]>>
             /\ hbRecv' = Append(hbRecv, p)
       \/ /\ hbChan' = <<[Msg |-> "", Err |-> TRUE]>>
          /\ hbRecv' = hbRecv
    /\ UNCHANGED <<proc, chan, dispatchVars, cmdVars, hbHand, hbSent>>
    /\ UNCHANGED taskVars

\* The loop of startHeartbeat, case v := <-msgs
hbTake ==
    /\ Running
    /\ hbChan # <<>> /\ hbHand = <<>>
    /\ hbHand' = hbChan
    /\ hbChan' = <<>>
    /\ UNCHANGED <<proc, netVars, dispatchVars, cmdVars, hbRecv, hbSent>>
    /\ UNCHANGED taskVars

\* Variant of hbReply that answers every ping with a fixed payload.
hbReply_Fixed(msg) == "ping"

\* What the heartbeat loop sends for the message it took.
hbReply(msg) == msg

\* Variant of hbEcho that logs a failed receive and goes back to the loop.
hbEcho_LogOnly ==
    /\ Running
    /\ hbHand # <<>>
    /\ LET v == hbHand[1] IN
       IF v.Err
          THEN /\ hbHand' = <<>>
               /\ UNCHANGED <<proc, hbSent>>
          ELSE /\ hbSent' = Append(hbSent, hbReply(v.Msg))
               /\ hbHand' = <<>>
               /\ proc' = proc
    /\ UNCHANGED <<netVars, dispatchVars, cmdVars, hbChan, hbRecv>>
    /\ UNCHANGED taskVars

\* Variant of hbEcho that echoes only while the message loop is at its
\* select, as if the send needed something a handler holds.
hbEcho_WhenLoopIdle ==
    /\ Running
    /\ hbHand # <<>>
    /\ pc = "select"
    /\ LET v == hbHand[1] IN
       IF v.Err
          THEN /\ proc' = "fatal_hb"
               /\ UNCHANGED <<hbHand, hbSent>>
          ELSE /\ hbSent' = Append(hbSent, hbReply(v.Msg))
               /\ hbHand' = <<>>
               /\ proc' = proc
    /\ UNCHANGED <<netVars, dispatchVars, cmdVars, hbChan, hbRecv>>
    /\ UNCHANGED taskVars

\* The function the loop runs under hbSocket.RunWithSocket: log.Fatalf on a
\* receive error, else echo.Send(v.Msg), whose error is logged.
hbEcho ==
    /\ Running
    /\ hbHand # <<>>
    /\ LET v == hbHand[1] IN
       IF v.Err
          THEN /\ proc' = "fatal_hb"
               /\ UNCHANGED <<hbHand, hbSent>>
          ELSE /\ hbSent' = Append(hbSent, hbReply(v.Msg))
               /\ hbHand' = <<>>
               /\ proc' = proc
    /\ UNCHANGED <<netVars, dispatchVars, cmdVars, hbChan, hbRecv>>
    /\ UNCHANGED taskVars

\* The loop of startHeartbeat, case <-timeout.C: continue
hbTimeout ==
    /\ Running
    /\ hbHand = <<>>
    /\ UNCHANGED vars

\* ------------------------------------------------------------------- Next
Next ==
    \/ \E e \in Pollers : poll(e)
    \/ RecvShell
    \/ RecvStdin
    \/ RecvCtl
    \/ sendKernelInfo
    \/ handleIsCompleteRequest
    \/ handleCompleteRequest
    \/ handleShutdownRequest
    \/ handleUnknown
    \/ handleExecuteRequestStart
    \/ evalSpecialCommands
    \/ \E s \in Streams : cmdCopyRead(s)
    \/ \E h \in cmdHand : cmdCopyWrite(h)
    \/ cmdWait
    \/ cmdJoin
    \/ \E s \in Streams : evalWrite(s)
    \/ evalReturn
    \/ closeAndRestore
    \/ \E s \in Streams : forward(s)
    \/ \E s \in Streams : forwardDone(s)
    \/ publishOutcome
    \/ sendExecuteReply
    \/ PublishIdle
    \/ hbPoll
    \/ hbTake
    \/ hbEcho
    \/ hbTimeout

Spec == Init /\ [][Next]_vars

\* ------------------------------------------------- scheduling assumptions
\* The stdin poller with its front-end sending without end: the loop drops
\* every value it takes from the stdin channel unread, so nothing of these
\* messages is kept.
pollStdinMore ==
    /\ Running
    /\ chan["stdin"] = <<>>
    /\ nRecv = MaxMsgs
    /\ chan' = [chan EXCEPT !["stdin"] = <<[id |-> 0, ep |-> "stdin", Err |-> FALSE]>>]
    /\ UNCHANGED <<proc, nRecv, dispatchVars, cmdVars, hbVars>>
    /\ UNCHANGED taskVars

NextFlood == Next \/ pollStdinMore

\* The steps of a handler and of the goroutines it waits for, from the
\* switch of handleShellMsg to the deferred idle.
Handling ==
    \/ sendKernelInfo
    \/ handleIsCompleteRequest
    \/ handleCompleteRequest
    \/ handleShutdownRequest
    \/ handleUnknown
    \/ handleExecuteRequestStart
    \/ evalSpecialCommands
    \/ \E s \in Streams : cmdCopyRead(s)
    \/ \E h \in cmdHand : cmdCopyWrite(h)
    \/ cmdWait
    \/ cmdJoin
    \/ \E s \in Streams : evalWrite(s)
    \/ evalReturn
    \/ closeAndRestore
    \/ \E s \in Streams : forward(s)
    \/ \E s \in Streams : forwardDone(s)
    \/ publishOutcome
    \/ sendExecuteReply
    \/ PublishIdle

\* The state after the stdin poller received a first message and the loop
\* took it from the channel and dropped it.
InitFair ==
    /\ proc = "running"
    /\ nRecv = 1
    /\ chan = [e \in Pollers |-> <<>>]
    /\ pc = "select"
    /\ receipt = <<>>
    /\ ExecCounter = 0
    /\ wire = <<>>
    /\ std = [s \in Streams |-> "orig"]
    /\ pipe = [s \in Streams |-> [buf |-> <<>>, wopen |-> FALSE]]
    /\ fwd = [s \in Streams |-> "none"]
    /\ cmdHand = {}
    /\ res = <<>>
    /\ nChunks = 0
    /\ hbChan = <<>>
    /\ hbHand = <<>>
    /\ hbRecv = <<>>
    /\ hbSent = <<>>
    /\ reqs = <<>>
    /\ outcome = <<>>
    /\ InitTasks

\* The Go scheduler runs every goroutine that can run, and a select whose
\* case stays ready is not passed over for ever.
FairSpec ==
    /\ InitFair /\ [][NextFlood]_vars
    /\ WF_vars(Handling)
    /\ WF_vars(RecvShell)
    /\ WF_vars(RecvCtl)
    /\ WF_vars(hbTake)
    /\ WF_vars(hbEcho)

\* The state in which the first message, a well-formed execute_request for
\* an ordinary line received on the shell socket, is being evaluated: busy
\* and execute_input are published, the streams are redirected, the
\* forwarding goroutines run and ir.Eval has been called.
FirstRequest ==
    [id |-> 1, ep |-> "shell", MsgType |-> "execute_request",
     Content |-> [ok |-> TRUE, code |-> "1+1", silent |-> FALSE]]

InitEvaluating ==
    /\ proc = "running"
    /\ nRecv = 1
    /\ chan = [e \in Pollers |-> <<>>]
    /\ pc = "eval"
    /\ receipt = <<FirstRequest>>
    /\ ExecCounter = 1
    /\ wire = <<StatusEvent(FirstRequest, kernelBusy), ExecuteInputEvent(FirstRequest, 1)>>
    /\ std = [s \in Streams |-> "pipe"]
    /\ pipe = [s \in Streams |-> [buf |-> <<>>, wopen |-> TRUE]]
    /\ fwd = [s \in Streams |-> "run"]
    /\ cmdHand = {}
    /\ res = <<>>
    /\ nChunks = 0
    /\ hbChan = <<>>
    /\ hbHand = <<>>
    /\ hbRecv = <<>>
    /\ hbSent = <<>>
    /\ reqs = <<[id |-> 1, MsgType |-> "execute_request", silent |-> FALSE,
                 authentic |-> TRUE]>>
    /\ outcome = <<>>
    /\ InitTasks

\* The heartbeat goroutines are scheduled whenever they can run; nothing is
\* assumed of the handler, which may go on for ever (ir.Eval need not
\* return).
HeartbeatSpec ==
    /\ InitEvaluating /\ [][Next]_vars
    /\ WF_vars(hbTake)
    /\ WF_vars(hbEcho)

\* ---------------------------------------------------------- RunWithSocket
\* Everything of the process but how it ended, the locks and the goroutines.
kernelVars == <<netVars, dispatchVars, cmdVars, hbVars>>

\* How the function passed to RunWithSocket may end: it returns nil, returns
\* an error, or panics.
RunResults == {"nil", "error", "panic"}

\* The tasks between the Lock and the Unlock of socket s.
Holding(s) == {t \in Writers : at[t].pos \in {"run", "deferred"} /\ at[t].sock = s}

\* RunWithSocket: s.Lock.Lock() returns once the mutex is free, and holds it.
RunWithSocketLock(t, s) ==
    /\ Running
    /\ at[t].pos = "out" /\ s \in WritesTo(t)
    /\ ~lock[s]
    /\ lock' = [lock EXCEPT ![s] = TRUE]
    /\ at' = [at EXCEPT ![t] = [pos |-> "run", sock |-> s, result |-> "none"]]
    /\ UNCHANGED <<proc, kernelVars, quit, task>>

\* RunWithSocket: run(s.Socket) ends. The function of the heartbeat loop may
\* also end the process inside it (log.Fatalf), which runs no deferred call.
RunWithSocketRun(t) ==
    /\ Running
    /\ at[t].pos = "run"
    /\ \/ /\ \E r \in RunResults :
                at' = [at EXCEPT ![t].pos = "deferred", ![t].result = r]
          /\ proc' = proc
       \/ /\ t = "heartbeat"
          /\ proc' = "fatal_hb"
          /\ at' = at
    /\ UNCHANGED <<lock, kernelVars, quit, task>>

\* Variant of RunWithSocketUnlock for an Unlock written after the call of
\* run, not deferred: a panic of run skips it.
RunWithSocketUnlock_NoDefer(t) ==
    /\ Running
    /\ at[t].pos = "deferred"
    /\ lock' = IF at[t].result = "panic" THEN lock
                                         ELSE [lock EXCEPT ![at[t].sock] = FALSE]
    /\ at' = [at EXCEPT ![t].pos = "out"]
    /\ IF at[t].result = "panic"
          THEN \/ proc' = "panic"
               \/ t = "loop" /\ proc' = proc
          ELSE proc' = proc
    /\ UNCHANGED <<kernelVars, quit, task>>

\* RunWithSocket: the deferred s.Lock.Unlock() runs when run returned and
\* when it panicked; then RunWithSocket returns or the panic goes on in the
\* caller. A panic ends the process unless it is recovered, which only the
\* handler's doEval does.
RunWithSocketUnlock(t) ==
    /\ Running
    /\ at[t].pos = "deferred"
    /\ lock' = [lock EXCEPT ![at[t].sock] = FALSE]
    /\ at' = [at EXCEPT ![t].pos = "out"]
    /\ IF at[t].result = "panic"
          THEN \/ proc' = "panic"
               \/ t = "loop" /\ proc' = proc
          ELSE proc' = proc
    /\ UNCHANGED <<kernelVars, quit, task>>

NextGuard ==
    \/ \E t \in Writers : \E s \in GuardedSockets : RunWithSocketLock(t, s)
    \/ \E t \in Writers : RunWithSocketRun(t)
    \/ \E t \in Writers : RunWithSocketUnlock(t)

\* The writing tasks and the locks of the sockets, all else left aside.
GuardSpec == Init /\ [][NextGuard]_vars

\* ------------------------------------------------------- quit channels
\* The goroutines that receive from a socket and offer what they received
\* on a channel: the three pollers and the reader of startHeartbeat.
Receivers == Pollers \cup {"hbReader"}

\* The quit channel a receiver has in its select: poll is a closure over
\* RunKernel's quit, the heartbeat goroutines over startHeartbeat's.
QuitOf(g) == IF g \in Pollers THEN "RunKernel" ELSE "startHeartbeat"

\* poll, and the reader of startHeartbeat: sck.Recv() returns, with a
\* message or an error, and the goroutine goes to its select.
taskRecv(g) ==
    /\ Running
    /\ task[g] = "recv"
    /\ task' = [task EXCEPT ![g] = "select"]
    /\ UNCHANGED <<proc, kernelVars, lock, at, quit>>

\* poll, and the reader of startHeartbeat: the select takes `case <-quit`,
\* the goroutine returns and its deferred close(msgs) runs.
taskQuit(g) ==
    /\ Running
    /\ task[g] = "select"
    /\ quit[QuitOf(g)]
    /\ task' = [task EXCEPT ![g] = "done"]
    /\ UNCHANGED <<proc, kernelVars, lock, at, quit>>

\* Where the message loop goes after it took a value from the channel of
\* poller e: back to the select (stdin; a receive error on shell), into
\* handleShellMsg, or out of RunKernel (a receive error on control, a
\* message that does not decode).
LoopAfter(e) ==
    CASE e = "stdin" -> {"select"}
      [] e = "shell" -> {"select", "handle", "returned"}
      [] e = "ctl" -> {"handle", "returned"}

\* RunKernel: the select of the message loop takes the value poller e
\* offers; the poller goes on to its next Recv. When RunKernel returns, its
\* deferred close(quit) runs.
loopTake(e) ==
    /\ Running
    /\ task["loop"] = "select" /\ task[e] = "select"
    /\ \E next \in LoopAfter(e) :
          /\ task' = [task EXCEPT ![e] = "recv", !["loop"] = next]
          /\ quit' = IF next = "returned" THEN [quit EXCEPT !["RunKernel"] = TRUE]
                                          ELSE quit
    /\ UNCHANGED <<proc, kernelVars, lock, at>>

\* handleShellMsg returns to the loop, or ends the process: with log.Fatal
\* or os.Exit, which run no deferred call, or with a panic, which runs the
\* deferred close(quit) on its way out.
loopHandled ==
    /\ Running
    /\ task["loop"] = "handle"
    /\ \/ /\ task' = [task EXCEPT !["loop"] = "select"]
          /\ UNCHANGED <<proc, quit>>
       \/ /\ proc' \in {"fatal", "exit0"}
          /\ UNCHANGED <<task, quit>>
       \/ /\ proc' = "panic"
          /\ quit' = [quit EXCEPT !["RunKernel"] = TRUE]
          /\ task' = task
    /\ UNCHANGED <<kernelVars, lock, at>>

\* The select of the loop of startHeartbeat: `case <-quit` returns, `case
\* <-timeout.C` goes round, `case v := <-msgs` takes what the reader offers.
hbLoopSelect ==
    /\ Running
    /\ task["hbLoop"] = "select"
    /\ \/ /\ quit["startHeartbeat"]
          /\ task' = [task EXCEPT !["hbLoop"] = "done"]
       \/ task' = task
       \/ /\ task["hbReader"] = "select"
          /\ task' = [task EXCEPT !["hbReader"] = "recv", !["hbLoop"] = "echo"]
    /\ UNCHANGED <<proc, kernelVars, lock, at, quit>>

\* The loop of startHeartbeat: the echo under RunWithSocket, or log.Fatalf
\* for a failed receive.
hbLoopEcho ==
    /\ Running
    /\ task["hbLoop"] = "echo"
    /\ \/ /\ task' = [task EXCEPT !["hbLoop"] = "select"]
          /\ proc' = proc
       \/ /\ proc' = "fatal_hb"
          /\ task' = task
    /\ UNCHANGED <<kernelVars, lock, at, quit>>

\* The caller of RunKernel, after it returned, ends the process (as main
\* does when it returns).
callerExit ==
    /\ Running
    /\ task["loop"] = "returned"
    /\ proc' = "returned"
    /\ UNCHANGED <<kernelVars, taskVars>>

NextQuit ==
    \/ \E g \in Receivers : taskRecv(g)
    \/ \E g \in Receivers : taskQuit(g)
    \/ \E e \in Pollers : loopTake(e)
    \/ loopHandled
    \/ hbLoopSelect
    \/ hbLoopEcho
    \/ callerExit

\* The goroutines and the quit channels, all else left aside. Every
\* goroutine that can take a step is scheduled, and messages keep arriving
\* on every socket, so that every Recv returns. RunKernel is the exported
\* entry point of the package: when its caller ends the process after it
\* returned is not RunKernel's to decide, and nothing is assumed of it.
QuitSpec ==
    /\ Init /\ [][NextQuit]_vars
    /\ \A g \in Receivers : WF_vars(taskRecv(g)) /\ WF_vars(taskQuit(g))
    /\ \A e \in Pollers : WF_vars(loopTake(e))
    /\ WF_vars(loopHandled)
    /\ WF_vars(hbLoopSelect)
    /\ WF_vars(hbLoopEcho)

\* ------------------------------------------------- reading the wire log
WireIdx == 1..Len(wire)

IsStatus(e, state) == e.kind = "status" /\ e.state = state

\* The places of the events of one kind that are tied to request id.
EventsOf(id, kind) == {i \in WireIdx : wire[i].req = id /\ wire[i].kind = kind}
StatusOf(id, state) == {i \in WireIdx : wire[i].req = id /\ IsStatus(wire[i], state)}

\* The place of an iopub event in the order busy, execute_input, stream*,
\* (execute_result | error), idle.
Rank(e) ==
    CASE IsStatus(e, kernelBusy) -> 0
      [] e.kind = "execute_input" -> 1
      [] e.kind = "stream" -> 2
      [] e.kind \in {"execute_result", "error"} -> 3
      [] OTHER -> 4

ExecuteRequests == {i \in 1..Len(reqs) : reqs[i].MsgType = "execute_request"}

\* The handler of the current message is past publishOutcome.
Outcome == pc \in {"reply", "idle"} /\ cur.MsgType = "execute_request" /\ cur.Content.ok

\* ------------------------------------------------------------------ C1
\* C1: for every execute_request handled to completion (its idle status is
\* published), the iopub events tied to it are published in the order busy,
\* execute_input, stream*, (execute_result | error), idle: no event of the
\* request comes before its busy or after its idle, and no stream event comes
\* after its execute_result or error.
C1_IopubOrder ==
    \A r \in ExecuteRequests :
       StatusOf(reqs[r].id, kernelIdle) # {} =>
          \A i, j \in WireIdx :
             (/\ i < j
              /\ wire[i].req = reqs[r].id /\ wire[j].req = reqs[r].id
              /\ wire[i].sock = "iopub" /\ wire[j].sock = "iopub")
             => /\ Rank(wire[i]) <= Rank(wire[j])
                /\ Rank(wire[i]) \in {0, 1, 3, 4} => Rank(wire[i]) < Rank(wire[j])

\* ------------------------------------------------------------------ C2
\* C2 as claimed: every execute_reply is sent after the idle status event of
\* its request has been published.
C2_ReplyAfterIdle ==
    \A i \in WireIdx :
       (wire[i].kind = "execute_reply" /\ wire[i].ok) =>
          \E j \in StatusOf(wire[i].req, kernelIdle) : j < i

\* C2 as amended: the execute_reply of a request is sent before the idle
\* status event of that request is published, and after its execute_input and
\* its execute_result or error event; an execute_request whose idle status is
\* published after its execute_input has had its execute_reply sent.
C2_ReplyBeforeIdle ==
    /\ \A i \in WireIdx :
          wire[i].kind = "execute_reply" =>
             /\ \A j \in StatusOf(wire[i].req, kernelIdle) : i < j
             /\ \E j \in EventsOf(wire[i].req, "execute_input") : j < i
             /\ \A j \in EventsOf(wire[i].req, "execute_result")
                         \cup EventsOf(wire[i].req, "error") : j < i
    /\ \A r \in ExecuteRequests :
          (/\ StatusOf(reqs[r].id, kernelIdle) # {}
           /\ EventsOf(reqs[r].id, "execute_input") # {})
          => Cardinality(EventsOf(reqs[r].id, "execute_reply")) = 1

\* A request's execute_reply was sent and its idle status published.
C2_Witness ==
    \E i, j \in WireIdx :
       /\ wire[i].kind = "execute_reply" /\ wire[i].ok
       /\ wire[j].req = wire[i].req /\ IsStatus(wire[j], kernelIdle)

\* ------------------------------------------------------------------ C3
\* C3: the handling of two messages never overlaps: the busy event of a
\* message is published only after the idle event of every message taken
\* before it, and nothing tied to another message is sent between the busy
\* and the idle event of a message.
C3_Serialized ==
    /\ \A a, b \in 1..Len(reqs) :
          a < b => \E i \in StatusOf(reqs[a].id, kernelIdle) :
                      \A j \in StatusOf(reqs[b].id, kernelBusy) : i < j
    /\ \A i, j, k \in WireIdx :
          (/\ i < j /\ j < k
           /\ IsStatus(wire[i], kernelBusy) /\ IsStatus(wire[k], kernelIdle)
           /\ wire[i].req = wire[k].req)
          => wire[j].req = wire[i].req

\* ------------------------------------------------------------------ C4
NonSilentInputs(upTo) ==
    {j \in 1..upTo :
        /\ wire[j].kind = "execute_input"
        /\ \E r \in ExecuteRequests : reqs[r].id = wire[j].req /\ ~reqs[r].silent}

\* C4: the execution counter equals the number of non-silent
\* execute_requests whose execution has started (so it never decreases and
\* grows by one per non-silent execute_request and by nothing else), and the
\* count an execute_input event carries is the counter after the increment
\* of its own request.
C4_CounterCountsNonSilent ==
    /\ ExecCounter = Cardinality(NonSilentInputs(Len(wire)))
    /\ \A i \in WireIdx :
          wire[i].kind = "execute_input" =>
             wire[i].count = Cardinality(NonSilentInputs(i))

\* A non-silent execution was counted and then a silent one was started,
\* which left the counter at 1.
C4_Witness ==
    /\ ExecCounter = 1
    /\ \E i \in WireIdx :
          /\ wire[i].kind = "execute_input" /\ wire[i].count = 1
          /\ \E r \in ExecuteRequests : reqs[r].id = wire[i].req /\ reqs[r].silent

\* ------------------------------------------------------------------ C5
\* The handler of message r is over: the loop is back at its select, handles
\* a later message, or the process has ended.
HandlerOver(r) == ~Running \/ receipt = <<>> \/ cur.id # reqs[r].id

\* C5: for every decoded shell or control message a busy status event is
\* published before the handler runs and an idle status event after it,
\* whatever the handler's outcome.
C5_BusyThenIdle ==
    \A r \in 1..Len(reqs) :
       /\ StatusOf(reqs[r].id, kernelBusy) # {}
       /\ HandlerOver(r) =>
             \E i \in StatusOf(reqs[r].id, kernelBusy) :
                \E j \in StatusOf(reqs[r].id, kernelIdle) : i < j

\* ------------------------------------------------------------------ C6
Faulted == outcome # <<>> /\ outcome[1].k \in {"err", "panic"}

\* C6: when the evaluation of an execute_request raises a fault with message
\* M (the interpreter returns an error, or the interpreter or a special
\* command panics), the process does not crash: the handler goes on, publishes
\* an error event with message M and no execute_result, sends an
\* execute_reply with status "error" and evalue M, and returns to the loop.
\* In the whole log, an execute_reply has status "error" exactly when an error
\* event of its request was published before it, with the same message.
C6_FaultBecomesErrorReply ==
    /\ Faulted =>
          /\ proc # "panic"
          /\ pc \in {"close", "wait", "reply", "idle"}
          /\ pc \in {"reply", "idle"} =>
                /\ \E i \in EventsOf(cur.id, "error") : wire[i].evalue = outcome[1].msg
                /\ EventsOf(cur.id, "execute_result") = {}
          /\ \A i \in EventsOf(cur.id, "execute_reply") :
                /\ wire[i].content.status = "error"
                /\ wire[i].content.evalue = outcome[1].msg
          /\ pc = "idle" => \E i \in EventsOf(cur.id, "execute_reply") : wire[i].ok
    /\ \A i \in WireIdx :
          wire[i].kind = "execute_reply" =>
             IF wire[i].content.status = "error"
                THEN \E j \in EventsOf(wire[i].req, "error") :
                        j < i /\ wire[j].evalue = wire[i].content.evalue
                ELSE EventsOf(wire[i].req, "error") = {}

\* A panic of the evaluation was turned into an error event and an error
\* reply, and the handler is about to return to the loop.
C6_Witness ==
    /\ Running /\ pc = "idle"
    /\ outcome # <<>> /\ outcome[1].k = "panic" /\ ~outcome[1].isError
    /\ outcome[1].msg = "bang"
    /\ \E i \in EventsOf(cur.id, "execute_reply") :
          wire[i].ok /\ wire[i].content.evalue = "bang"

\* ------------------------------------------------------------------ C7
\* C7: a non-silent execute_request whose evaluation returns a plain value
\* (the number 2) yields an execute_reply with status "ok" and an
\* execute_result event that renders the value as text/plain.
C7_PlainValueRendered ==
    (/\ Outcome /\ ~cur.Content.silent
     /\ outcome[1].k = "vals" /\ outcome[1].vals = <<Plain("2")>>)
    => /\ \E i \in EventsOf(cur.id, "execute_result") :
             MIMETypeText \in DOMAIN wire[i].data
       /\ \A i \in EventsOf(cur.id, "execute_reply") : wire[i].content.status = "ok"

\* ------------------------------------------------------------------ C8
\* C8: once the handler is past its result step, an execute_result event of
\* the request is published if and only if the request is not silent, the
\* evaluation succeeded and the renderer returned a non-empty payload; all
\* the output written was published as stream events by then, and the
\* execute_reply is sent in either case. No request has more than one
\* execute_result, none before the result step, and a silent request, a
\* request with an error event and a request of another type have none.
C8_ResultIffRenderable ==
    /\ Outcome =>
          /\ EventsOf(cur.id, "execute_result") # {}
             <=> /\ ~cur.Content.silent
                 /\ outcome[1].k = "vals"
                 /\ LenData(autoRenderResults(outcome[1].vals)) # 0
          /\ \A i \in EventsOf(cur.id, "execute_result") :
                wire[i].data = autoRenderResults(outcome[1].vals).Data
          /\ \A s \in Streams : pipe[s].buf = <<>>
          /\ pc = "idle" => EventsOf(cur.id, "execute_reply") # {}
    /\ (receipt # <<>> /\ ~Outcome) => EventsOf(cur.id, "execute_result") = {}
    /\ \A r \in 1..Len(reqs) :
          /\ Cardinality(EventsOf(reqs[r].id, "execute_result")) <= 1
          /\ (\/ reqs[r].MsgType # "execute_request"
              \/ reqs[r].silent
              \/ EventsOf(reqs[r].id, "error") # {})
             => EventsOf(reqs[r].id, "execute_result") = {}

\* A silent request whose evaluation returned a renderable value and wrote
\* output got its stream event and its reply and no execute_result.
C8_Witness ==
    /\ Outcome /\ pc = "idle"
    /\ cur.Content.silent
    /\ outcome[1].k = "vals" /\ LenData(autoRenderResults(outcome[1].vals)) # 0
    /\ EventsOf(cur.id, "stream") # {}
    /\ EventsOf(cur.id, "execute_result") = {}

\* ------------------------------------------------------------------ C9
\* C9: the complete_reply has status "error" exactly when the completer
\* returned no match; with one match or more it has status "ok".
C9_FoundNotFoundSplit ==
    (/\ receipt # <<>> /\ cur.MsgType = "complete_request"
     /\ outcome # <<>> /\ outcome[1].k = "matches")
    => \A i \in EventsOf(cur.id, "complete_reply") :
          /\ wire[i].content.status = "error" <=> outcome[1].matches = <<>>
          /\ outcome[1].matches # <<>> => wire[i].content.status = "ok"

\* ----------------------------------------------------------------- C10
\* The payloads the responder holds: taken by the loop, offered by the reader.
hbHeld ==
    (IF hbHand # <<>> /\ ~hbHand[1].Err THEN <<hbHand[1].Msg>> ELSE <<>>)
    \o (IF hbChan # <<>> /\ ~hbChan[1].Err THEN <<hbChan[1].Msg>> ELSE <<>>)

\* C10: the payloads sent on the heartbeat socket are, in order and
\* unmodified, the payloads received on it, each sent once; a payload
\* received and not yet sent is still held by the responder, so none is
\* dropped.
C10_HeartbeatEcho == hbRecv = hbSent \o hbHeld

\* The empty payload and another payload were both echoed.
C10_Witness ==
    /\ Len(hbSent) = 2 /\ hbSent = hbRecv
    /\ hbSent[1] = "ping" /\ hbSent[2] = ""

\* ----------------------------------------------------------------- C11
\* C11: a failed receive on the heartbeat endpoint ends the heartbeat task
\* only: the process is never ended by the heartbeat task.
C11_HeartbeatErrorNotFatal == proc # "fatal_hb"

\* C11 (amended): a failed receive on the heartbeat endpoint, once the
\* heartbeat loop has taken it, ends the whole process; until then the
\* heartbeat echoes nothing more, and the process is ended by the heartbeat
\* task only for a failed receive.
C11_HeartbeatErrorEndsProcess ==
    /\ [](proc = "fatal_hb" => hbHand # <<>> /\ hbHand[1].Err)
    /\ [][(hbHand # <<>> /\ hbHand[1].Err)
            => /\ hbHand' = hbHand /\ hbSent' = hbSent
               /\ proc' # proc => ~Running']_vars
    /\ (hbHand # <<>> /\ hbHand[1].Err) ~> ~Running

\* The heartbeat loop took a failed receive and ended the process.
C11_Witness ==
    /\ proc = "fatal_hb"
    /\ hbHand # <<>> /\ hbHand[1].Err

\* ----------------------------------------------------------------- C12
\* C12: when a message received on the shell endpoint fails to decode or
\* fails the signature check, it is logged and dropped and the loop goes on:
\* the process keeps running.
C12_ShellDecodeErrorDropped ==
    (/\ outcome # <<>> /\ outcome[1].k \in {"decode", "auth"}
     /\ outcome[1].ep = "shell")
    => Running

\* ----------------------------------------------------------------- C13
HandlerReplies == {"is_complete_reply", "complete_reply", "execute_reply"}

FailedReplies == {i \in WireIdx : wire[i].sock = "shell" /\ ~wire[i].ok}

\* C13: a failure to send the reply in the is_complete_request,
\* complete_request or execute_request handler is logged and the loop goes
\* on: it does not end the process.
C13_HandlerErrorContinues ==
    \A i \in FailedReplies : wire[i].kind \in HandlerReplies => proc # "fatal"

\* C13 (amended): a failure to send the reply ends the process in every
\* handler (kernel_info_request, is_complete_request, complete_request,
\* execute_request, shutdown_request): the failed reply is the last message
\* sent, no idle event of its request is published, no later message is
\* handled and the process has ended with the error.
C13_HandlerErrorIsFatal ==
    \A i \in FailedReplies :
       /\ proc = "fatal"
       /\ i = Len(wire)
       /\ StatusOf(wire[i].req, kernelIdle) = {}
       /\ receipt # <<>> /\ cur.id = wire[i].req
       /\ reqs[Len(reqs)].id = wire[i].req

\* The reply of an execute_request could not be sent, after an earlier
\* request was handled, and the process has ended.
C13_Witness ==
    /\ proc = "fatal"
    /\ Len(reqs) = 2
    /\ \E i \in FailedReplies : wire[i].kind = "execute_reply" /\ i = Len(wire)

\* ----------------------------------------------------------------- C14
\* C14: on every exit path of the execute_request handler (it returned, with
\* or without an error, or panicked), os.Stdout and os.Stderr are the
\* streams they were before the handler started.
C14_StreamsRestored ==
    (/\ receipt # <<>> /\ cur.MsgType = "execute_request"
     /\ pc \in {"idle", "idle_panic"} \/ proc = "fatal")
    => \A s \in Streams : std[s] = "orig"

\* ----------------------------------------------------------------- C15
\* C15: every stream event of a request is published before the
\* execute_result or error event and before the execute_reply of that
\* request, and when the result step is over both pipes are drained and both
\* forwarders are done.
C15_OutputBeforeResult ==
    /\ \A i, j \in WireIdx :
          (/\ wire[i].kind = "stream" /\ wire[j].req = wire[i].req
           /\ wire[j].kind \in {"execute_result", "error", "execute_reply"})
          => i < j
    /\ (receipt # <<>> /\ Outcome) =>
          \A s \in Streams : pipe[s].buf = <<>> /\ fwd[s] = "none"

\* ----------------------------------------------------------------- C16
\* C16: a shutdown_reply carries the restart flag of its request and is the
\* last message sent: the process ends in the handler, with exit code 0 when
\* the reply was sent (with the error when it could not be sent), and no
\* other message is handled after the shutdown_request. The process exits
\* with code 0 only after a shutdown_reply was sent, and the handler of a
\* well-formed shutdown_request never returns to the loop.
C16_ShutdownRepliesThenExits ==
    /\ \A i \in WireIdx :
          wire[i].kind = "shutdown_reply" =>
             /\ i = Len(wire)
             /\ receipt # <<>> /\ cur.id = wire[i].req
             /\ cur.MsgType = "shutdown_request"
             /\ wire[i].content.restart = cur.Content.restart
             /\ reqs[Len(reqs)].id = cur.id
             /\ pc = "handle"
             /\ proc = IF wire[i].ok THEN "exit0" ELSE "fatal"
    /\ proc = "exit0" =>
          \E i \in WireIdx : wire[i].kind = "shutdown_reply" /\ wire[i].ok
    /\ (/\ receipt # <<>> /\ cur.MsgType = "shutdown_request"
        /\ cur.Content.ok)
       => pc = "handle" /\ StatusOf(cur.id, kernelIdle) = {}

\* After another request was handled, a shutdown_request asking for a restart
\* was answered and the process exited with code 0.
C16_Witness ==
    /\ proc = "exit0"
    /\ Len(reqs) = 2
    /\ cur.Content.restart
    /\ wire[Len(wire)].kind = "shutdown_reply" /\ wire[Len(wire)].content.restart

\* ----------------------------------------------------------------- C17
\* C17: with the signing key configured, every message that reached a
\* handler carried the signature of its JSON frames under that key; a
\* message whose signature does not match ends in an authentication error
\* with nothing dispatched: every event and reply sent belongs to a
\* dispatched request and the execution counter counts dispatched
\* execute_requests only.
C17_TamperedNeverDispatched ==
    /\ \A r \in 1..Len(reqs) : reqs[r].authentic
    /\ \A i \in WireIdx : \E r \in 1..Len(reqs) : reqs[r].id = wire[i].req
    /\ ExecCounter <= Cardinality(ExecuteRequests)
    /\ (outcome # <<>> /\ outcome[1].k = "auth") =>
          /\ proc = "returned"
          /\ receipt = <<>> /\ pc = "select"
          /\ Len(reqs) < nRecv

\* A message with a signature under another key arrived after a request was
\* handled, and decoding it gave an authentication error.
C17_Witness ==
    /\ outcome # <<>> /\ outcome[1].k = "auth"
    /\ Len(reqs) = 1 /\ nRecv = 2
    /\ StatusOf(reqs[1].id, kernelIdle) # {}

\* ----------------------------------------------------------------- C18
\* The identifiers of the messages the loop has dispatched or that wait on a
\* channel.
SeenIds == {reqs[r].id : r \in 1..Len(reqs)}

\* C18: the hand-off from a poller to the loop neither reorders, duplicates
\* nor drops a message of an endpoint: a poller offers one value at a time,
\* newer than every message dispatched before, and keeps offering it until
\* the loop, at its select, takes it; the message the loop dispatches is the
\* one it took from a channel, and no message is dispatched twice.
C18_HandOffInOrder ==
    /\ [](\A a, b \in 1..Len(reqs) : a < b => reqs[a].id # reqs[b].id)
    /\ [](\A e \in Pollers :
             chan[e] # <<>> => chan[e][1].ep = e /\ chan[e][1].id \notin SeenIds)
    /\ [][\A e \in Pollers :
             /\ (chan[e] # <<>> /\ chan'[e] # chan[e]) =>
                   /\ chan'[e] = <<>>
                   /\ Running /\ pc = "select"
                   /\ receipt' # receipt =>
                         /\ receipt'[1].id = chan[e][1].id
                         /\ receipt'[1].ep = e
             /\ (chan[e] = <<>> /\ chan'[e] # <<>>) =>
                   /\ \A id \in SeenIds : id < chan'[e][1].id
                   /\ \A f \in Pollers : chan[f] # <<>> => chan[f][1].id < chan'[e][1].id
             /\ (receipt' # receipt /\ receipt' # <<>>) =>
                   \E f \in Pollers : chan[f] # <<>> /\ chan'[f] = <<>>]_vars

\* The first shell message is being handled while the second one waits on
\* the shell channel.
C18_Witness ==
    /\ receipt # <<>> /\ cur.ep = "shell" /\ cur.id = 1
    /\ chan["shell"] # <<>> /\ chan["shell"][1].id = 2

C20_ControlFirst ==
    [][(/\ Running /\ pc = "select"
        /\ chan["ctl"] # <<>> /\ ~chan["ctl"][1].Err
        /\ chan["shell"] # <<>> /\ ~chan["shell"][1].Err)
       => chan'["shell"] = chan["shell"]]_vars

\* ----------------------------------------------------------------- C21
\* C21: the heartbeat responder is independent of the dispatch loop. A step
\* of the heartbeat goroutines changes nothing of the dispatch loop, of the
\* handler or of the pollers' channels, and no step of these changes what the
\* heartbeat holds; and a ping the heartbeat reader offers is taken, and a
\* ping the heartbeat loop took is echoed (or the process has ended),
\* whatever the handler does, even when the evaluation never returns.
C21_HeartbeatIndependent ==
    /\ [][(hbVars' # hbVars) =>
             /\ UNCHANGED <<chan, dispatchVars, cmdVars>>
             /\ proc' # proc => proc' = "fatal_hb"]_vars
    /\ [][(<<chan, dispatchVars, cmdVars>>' # <<chan, dispatchVars, cmdVars>>) =>
             UNCHANGED hbVars]_vars
    /\ (hbChan # <<>>) ~> (hbChan = <<>> \/ ~Running)
    /\ \A n \in 0..MaxMsgs :
          (hbHand # <<>> /\ ~hbHand[1].Err /\ Len(hbSent) = n)
             ~> (Len(hbSent) > n \/ ~Running)

\* A ping that arrived during the evaluation of the first request was echoed
\* while that evaluation has not returned.
C21_Witness ==
    /\ Running /\ pc = "eval" /\ receipt # <<>> /\ cur.id = 1
    /\ hbSent = <<"ping">> /\ hbHand = <<>>

\* ----------------------------------------------------------------- C22
\* C22: guarded writes to one socket are mutually exclusive and the guard is
\* always released: for every socket at most one task is inside the function
\* passed to RunWithSocket (between Lock and Unlock), and the lock is held
\* exactly while some task is there, so it is free again once the function
\* returned nil, returned an error or panicked and RunWithSocket was left.
C22_GuardExclusiveAndReleased ==
    \A s \in GuardedSockets :
       /\ Cardinality(Holding(s)) <= 1
       /\ lock[s] <=> Holding(s) # {}

\* The dispatch loop's write to iopub panicked and was recovered, one
\* forwarder's write returned an error, and the other forwarder is now
\* inside its write to iopub.
C22_Witness ==
    /\ Running
    /\ at["loop"] = [pos |-> "out", sock |-> "iopub", result |-> "panic"]
    /\ at["fwdStdout"] = [pos |-> "out", sock |-> "iopub", result |-> "error"]
    /\ at["fwdStderr"].pos = "run" /\ at["fwdStderr"].sock = "iopub"
    /\ lock["iopub"]

\* ----------------------------------------------------------------- C23
\* C23: closing the quit signal stops the three pollers and the heartbeat
\* task: once the quit channel RunKernel closes is closed, every poller and
\* both heartbeat goroutines eventually terminate (or the process has
\* ended), and the message loop leaves RunKernel only from its select, with
\* no handler in progress.
C23_QuitStopsAll ==
    /\ [][(task'["loop"] = "returned" /\ task["loop"] # "returned")
             => task["loop"] = "select"]_vars
    /\ quit["RunKernel"]
          ~> (~Running \/ \A g \in Receivers \cup {"hbLoop"} : task[g] = "done")

\* ----------------------------------------------------------------- C24
\* The handler is inside doEval: in the special commands or in ir.Eval.
InDoEval == pc \in {"special", "cmd", "cmdjoin", "eval"}

\* C24: the execute pipeline does not deadlock on its forwarding
\* goroutines. Whenever doEval is left, because the evaluation returned or
\* because it panicked, the handler goes on to close the write ends; from
\* then on both write ends are closed, both forwarding goroutines end and
\* the wait on them returns, and the execute_reply of the request is sent
\* (or the process has ended).
C24_PipelineEnds ==
    /\ [][(InDoEval /\ ~InDoEval') => (pc' = "close" /\ Running')]_vars
    /\ [](pc \in {"wait", "reply"} => \A s \in Streams : ~pipe[s].wopen)
    /\ [](pc = "reply" => \A s \in Streams : fwd[s] = "none" /\ pipe[s].buf = <<>>)
    /\ (pc = "close") ~> (~Running \/ pc = "reply")
    /\ \A n \in 1..MaxMsgs :
          (pc = "close" /\ Len(reqs) = n)
             ~> (\/ ~Running
                 \/ /\ Len(reqs) >= n
                    /\ \E i \in WireIdx : /\ wire[i].kind = "execute_reply"
                                          /\ wire[i].req = reqs[n].id)

\* The evaluation panicked after it wrote output: the output was forwarded
\* and the execute_reply was sent.
C24_Witness ==
    /\ Running /\ pc = "idle"
    /\ outcome # <<>> /\ outcome[1].k = "panic"
    /\ \E i, j \in WireIdx :
          /\ i < j
          /\ wire[i].kind = "stream" /\ wire[i].text = "out"
          /\ wire[j].kind = "execute_reply" /\ wire[j].req = wire[i].req

\* ----------------------------------------------------------------- C25
\* C25: a decoded request whose content is malformed (not a mapping, or a
\* field the handler reads is missing or of another type) does not end the
\* kernel: no step taken while such a request is being handled ends the
\* process (only a failed heartbeat receive may, at any time), and when its
\* handling is over the loop is back at its select with the process running.
C25_MalformedContentSurvives ==
    [][(Running /\ receipt # <<>> /\ ~cur.Content.ok) =>
          /\ proc' \in {"running", "fatal_hb"}
          /\ receipt' = <<>> => (Running' /\ pc' = "select")]_vars

\* ----------------------------------------------------------------- C26
\* The execution counts carried by what was sent for request id: by its
\* execute_input and execute_result events and by its execute_reply.
CountsOf(id) ==
    {wire[i].count : i \in EventsOf(id, "execute_input") \cup EventsOf(id, "execute_result")}
    \cup {wire[i].content.execution_count : i \in EventsOf(id, "execute_reply")}

\* C26: within one execute_request the execute_input event, the
\* execute_result event (when published) and the execute_reply carry the
\* same execution count, which is the counter right after the increment step
\* of that request: the counter changes only in that step, before the three
\* emissions, and while the request is being handled every count sent for it
\* equals the counter.
C26_OneCountPerRequest ==
    /\ [](\A r \in ExecuteRequests : Cardinality(CountsOf(reqs[r].id)) <= 1)
    /\ [](receipt # <<>> => \A c \in CountsOf(cur.id) : c = ExecCounter)
    /\ [][ExecCounter' # ExecCounter =>
             /\ pc = "handle" /\ cur.MsgType = "execute_request"
             /\ CountsOf(cur.id) = {}
             /\ CountsOf(cur.id)' = {ExecCounter'}]_vars
    /\ [][(receipt # <<>> /\ receipt' = receipt /\ pc # "handle") =>
             ExecCounter' = ExecCounter]_vars

\* The second of two counted executions published a result: its
\* execute_input, its execute_result and its execute_reply all carry 2.
C26_Witness ==
    \E r \in ExecuteRequests :
       /\ EventsOf(reqs[r].id, "execute_input") # {}
       /\ EventsOf(reqs[r].id, "execute_result") # {}
       /\ EventsOf(reqs[r].id, "execute_reply") # {}
       /\ CountsOf(reqs[r].id) = {2}
       /\ ExecCounter = 2

\* ----------------------------------------------------------------- C27
\* C27: the heartbeat responder strictly alternates receive and send on its
\* socket: while a ping it received has not been echoed, no further receive
\* on the heartbeat socket has returned (at most one ping received is not yet
\* echoed), and the echoes sent are, in order, the pings received.
C27_StrictAlternation ==
    /\ hbHand # <<>> => hbChan = <<>>
    /\ Len(hbRecv) <= Len(hbSent) + 1
    /\ Len(hbSent) <= Len(hbRecv)
    /\ SubSeq(hbRecv, 1, Len(hbSent)) = hbSent

====
